---- MODULE Spec2Model ----
(***************************************************************************)
(* Model of orchestrator/node/node.go: the OrchestratorNode lifecycle      *)
(* (New, Start, Close, the termination-signal goroutine, the asynchronous  *)
(* registerConsensusService task with its two-flag wait loop) and the      *)
(* Debounce utility.                                                       *)
(*                                                                         *)
(* shared.ServiceRegistry is not part of node.go; its four operations are  *)
(* modelled from the design document (ordered, one instance per kind,      *)
(* explicit not-found, StartAll in registration order, StopAll reversed).  *)
(***************************************************************************)
EXTENDS Naturals, Sequences, FiniteSets, TLC

\* ---------------------------------------------------------------- bounds
MaxCloseCalls == 2     \* programmatic Close() calls, besides the signal's one
MaxFeedEvents == 2     \* events each upstream feed publishes
MaxEvents == 3         \* events sent on Debounce's inbound channel
Interval == 2          \* Debounce's interval, in clock ticks

\* ------------------------------------------------------- program constants
EscalationCount == 10  \* for i := 10; i > 0; i--

\* ------------------------------------------------------------- vocabulary
SigCloser == 0                       \* the Close() started by `go o.Close()`
Closers == 0 .. MaxCloseCalls        \* 1..MaxCloseCalls: programmatic calls

Range(s) == { s[k] : k \in 1 .. Len(s) }

RECURSIVE Reverse(_)
Reverse(s) == IF s = << >> THEN << >> ELSE Append(Reverse(Tail(s)), Head(s))

RECURSIVE Count(_, _)
Count(s, x) ==
  IF s = << >> THEN 0
  ELSE (IF Head(s) = x THEN 1 ELSE 0) + Count(Tail(s), x)

VARIABLES
  \* --- New
  newPc,        \* New is at: startDB, vanguard, pandora, rpc, spawn, ok, failed
  newErr,       \* the error New returned ("none" while there is none)
  services,     \* o.services: the registry, kinds in registration order
  \* --- OrchestratorNode fields
  lock,         \* o.lock: "free", or held by "start" or by a "close"
  stopClosed,   \* o.stop has been closed
  cancelled,    \* o.cancel() has been called
  \* --- Start
  startPc,      \* idle, startAll, unlocked, waiting, returned
  startOrder,   \* the kinds StartAll iterates over
  startIdx,     \* next position of StartAll
  started,      \* kinds on which Start was invoked, in order
  \* --- Close (one entry per closer)
  closePc,      \* idle, waitlock, stopAll, cancel, closeStop, done
  stopOrder,    \* the kinds StopAll of this Close iterates over
  stopIdx,      \* next position of that StopAll
  stopped,      \* kinds on which this Close invoked Stop, in order
  afterStart,   \* this Close took the lock after Start had run StartAll
  \* --- the signal goroutine of Start
  sigPc,        \* none, spawned, first, loop, panicked
  sigI,         \* the loop counter i
  sigc,         \* number of signals buffered in sigc (capacity 1)
  sigReceived,  \* signals the goroutine has received from sigc
  \* --- registerConsensusService
  consPc,       \* notlaunched, fetchVanguard, fetchPandora, subscribe, gate,
                \* register, done, abandoned
  vanguardHeadersChan,        \* events buffered in the header-hash channel
  vanguardConsensusInfoChan,  \* events buffered in the consensus-info channel
  vanguardHeaderLock,
  vanguardConsensusLock,
  delivered,    \* feeds of the events the wait loop received, in order
  \* --- the process
  aborted       \* "no", "escalation" (panic of the signal goroutine),
                \* "doubleclose" (panic: close of closed channel)

VARIABLES
  \* --- Debounce
  dPc,          \* range (blocked in `for event := range`), select, done
  eventsChan,   \* events sent and not yet received
  chanClosed,   \* eventsChan has been closed
  ctxDone,      \* ctx.Done() is closed
  event,        \* the local variable event; 0 is the nil zero value
  timer,        \* ticks until timer.C is ready
  handled,      \* the handler's invocations, in order
  sent,         \* events sent so far; the k-th event carries the value k
  sinceLast,    \* ticks since the last event was sent (capped)
  sincePrev,    \* ticks between the last event sent and the one before it
  burstLen      \* events of the current burst (gaps below Interval)

debVars ==
  << dPc, eventsChan, chanClosed, ctxDone, event, timer, handled, sent,
     sinceLast, sincePrev, burstLen >>

nodeVars ==
  << newPc, newErr, services, lock, stopClosed, cancelled, startPc, startOrder,
     startIdx, started, closePc, stopOrder, stopIdx, stopped, afterStart,
     sigPc, sigI, sigc, sigReceived, consPc, vanguardHeadersChan,
     vanguardConsensusInfoChan, vanguardHeaderLock, vanguardConsensusLock,
     delivered, aborted >>

newVars   == << newPc, newErr >>
startVars == << startPc, startOrder, startIdx, started >>
closeVars == << closePc, stopOrder, stopIdx, stopped, afterStart >>
sigVars   == << sigPc, sigI, sigc, sigReceived >>
gateVars  == << vanguardHeadersChan, vanguardConsensusInfoChan,
                vanguardHeaderLock, vanguardConsensusLock, delivered >>
fieldVars == << lock, stopClosed, cancelled >>

Alive == aborted = "no"

\* ------------------------------------------------------ ServiceRegistry
\* RegisterService: appends, or fails when the kind is already present.
RegisterFails(reg, kind) == kind \in Range(reg)
RegisterService(reg, kind) ==
  IF RegisterFails(reg, kind) THEN reg ELSE Append(reg, kind)

\* FetchService: fails explicitly when the kind is absent.
FetchFails(reg, kind) == kind \notin Range(reg)

\* StartAll visits the kinds in registration order, StopAll in reverse.
StartAllOrder(reg) == reg
StopAllOrder(reg) == Reverse(reg)

\* The context a service is constructed with: o.ctx, the child made by
\* context.WithCancel(cliCtx.Context), for the services New registers;
\* cliCtx.Context itself, the parent, for the consensus service.
CtxOf(kind) == IF kind = "consensus" THEN "cliCtx.Context" ELSE "o.ctx"

\* o.cancel() cancels o.ctx and not its parent, which nothing in the node
\* cancels.
CtxCancelled(ctx, cancelCalled) == ctx = "o.ctx" /\ cancelCalled

\* ------------------------------------------------------------------ New
NodeInit ==
  /\ newPc = "startDB" /\ newErr = "none" /\ services = << >>
  /\ lock = "free" /\ stopClosed = FALSE /\ cancelled = FALSE
  /\ startPc = "idle" /\ startOrder = << >> /\ startIdx = 1 /\ started = << >>
  /\ closePc = [c \in Closers |-> "idle"]
  /\ stopOrder = [c \in Closers |-> << >>]
  /\ stopIdx = [c \in Closers |-> 1]
  /\ stopped = [c \in Closers |-> << >>]
  /\ afterStart = [c \in Closers |-> FALSE]
  /\ sigPc = "none" /\ sigI = 0 /\ sigc = 0 /\ sigReceived = 0
  /\ consPc = "notlaunched"
  /\ vanguardHeadersChan = 0 /\ vanguardConsensusInfoChan = 0
  /\ vanguardHeaderLock = TRUE /\ vanguardConsensusLock = TRUE
  /\ delivered = << >>
  /\ aborted = "no"

\* startDB: db.NewDB (and the clear path) succeeds or fails.
startDB ==
  /\ Alive /\ newPc = "startDB"
  /\ \E ok \in BOOLEAN :
       IF ok THEN newPc' = "vanguard" /\ newErr' = newErr
             ELSE newPc' = "failed" /\ newErr' = "StorageError"
  /\ UNCHANGED << debVars, services, fieldVars, startVars, closeVars, sigVars, consPc,
                  gateVars, aborted >>

\* A chain service: when NewService fails the function returns nil (no error,
\* nothing registered); otherwise it returns RegisterService's result.
RegisterChain(kind, next) ==
  \E built \in BOOLEAN :
    IF ~built
      THEN newPc' = next /\ newErr' = newErr /\ services' = services
      ELSE IF RegisterFails(services, kind)
        THEN newPc' = "failed" /\ newErr' = "DuplicateServiceError"
             /\ services' = services
        ELSE newPc' = next /\ newErr' = newErr
             /\ services' = RegisterService(services, kind)

registerVanguardChainService ==
  /\ Alive /\ newPc = "vanguard"
  /\ RegisterChain("vanguard", "pandora")
  /\ UNCHANGED << debVars, fieldVars, startVars, closeVars, sigVars, consPc, gateVars,
                  aborted >>

registerPandoraChainService ==
  /\ Alive /\ newPc = "pandora"
  /\ RegisterChain("pandora", "rpc")
  /\ UNCHANGED << debVars, fieldVars, startVars, closeVars, sigVars, consPc, gateVars,
                  aborted >>

\* Mutant: the fetch error is dropped and construction goes on.
registerRPCService_NoFetchCheck ==
  /\ Alive /\ newPc = "rpc"
  /\ RegisterChain("rpc", "spawn")
  /\ UNCHANGED << debVars, fieldVars, startVars, closeVars, sigVars, consPc, gateVars,
                  aborted >>

\* registerRPCService: fetch the vanguard service first; its error is returned.
registerRPCService ==
  /\ Alive /\ newPc = "rpc"
  /\ IF FetchFails(services, "vanguard")
       THEN newPc' = "failed" /\ newErr' = "ServiceNotFoundError"
            /\ services' = services
       ELSE RegisterChain("rpc", "spawn")
  /\ UNCHANGED << debVars, fieldVars, startVars, closeVars, sigVars, consPc, gateVars,
                  aborted >>

\* go orchestrator.registerConsensusService(cliCtx); return orchestrator, nil
New_launch ==
  /\ Alive /\ newPc = "spawn"
  /\ newPc' = "ok" /\ consPc' = "fetchVanguard"
  /\ UNCHANGED << debVars, newErr, services, fieldVars, startVars, closeVars, sigVars,
                  gateVars, aborted >>

New ==
  \/ startDB
  \/ registerVanguardChainService
  \/ registerPandoraChainService
  \/ registerRPCService
  \/ New_launch

\* ------------------------------------------- registerConsensusService
\* err := services.FetchService(&vanguardChain); on error log and return.
Consensus_fetchVanguard ==
  /\ Alive /\ consPc = "fetchVanguard"
  /\ consPc' = IF FetchFails(services, "vanguard") THEN "abandoned"
               ELSE "fetchPandora"
  /\ UNCHANGED << debVars, newVars, services, fieldVars, startVars, closeVars, sigVars,
                  gateVars, aborted >>

\* Mutant: the error of the second fetch is ignored.
Consensus_fetchPandora_IgnoreErr ==
  /\ Alive /\ consPc = "fetchPandora"
  /\ consPc' = "subscribe"
  /\ UNCHANGED << debVars, newVars, services, fieldVars, startVars, closeVars, sigVars,
                  gateVars, aborted >>

\* err = services.FetchService(&pandoraChain); on error log and return.
Consensus_fetchPandora ==
  /\ Alive /\ consPc = "fetchPandora"
  /\ consPc' = IF FetchFails(services, "pandora") THEN "abandoned"
               ELSE "subscribe"
  /\ UNCHANGED << debVars, newVars, services, fieldVars, startVars, closeVars, sigVars,
                  gateVars, aborted >>

\* Mutant: the task registers the service without waiting for the feeds.
Consensus_subscribe_NoWait ==
  /\ Alive /\ consPc = "subscribe"
  /\ consPc' = "register"
  /\ vanguardHeaderLock' = TRUE /\ vanguardConsensusLock' = TRUE
  /\ UNCHANGED << debVars, newVars, services, fieldVars, startVars, closeVars,
                  sigVars, vanguardHeadersChan, vanguardConsensusInfoChan,
                  delivered, aborted >>

\* Both subscriptions, then both flags are armed.
Consensus_subscribe ==
  /\ Alive /\ consPc = "subscribe"
  /\ consPc' = "gate"
  /\ vanguardHeaderLock' = TRUE /\ vanguardConsensusLock' = TRUE
  /\ UNCHANGED << debVars, newVars, services, fieldVars, startVars, closeVars, sigVars,
                  vanguardHeadersChan, vanguardConsensusInfoChan, delivered,
                  aborted >>

Subscribed == consPc \in {"gate", "register", "done"}

\* The vanguard service publishes on a subscribed feed (buffered channel).
Feed_headers ==
  /\ Alive /\ Subscribed
  /\ vanguardHeadersChan + Count(delivered, "headers") < MaxFeedEvents
  /\ vanguardHeadersChan' = vanguardHeadersChan + 1
  /\ UNCHANGED << debVars, newVars, services, fieldVars, startVars, closeVars, sigVars,
                  consPc, vanguardConsensusInfoChan, vanguardHeaderLock,
                  vanguardConsensusLock, delivered, aborted >>

Feed_consensusInfo ==
  /\ Alive /\ Subscribed
  /\ vanguardConsensusInfoChan + Count(delivered, "info") < MaxFeedEvents
  /\ vanguardConsensusInfoChan' = vanguardConsensusInfoChan + 1
  /\ UNCHANGED << debVars, newVars, services, fieldVars, startVars, closeVars, sigVars,
                  consPc, vanguardHeadersChan, vanguardHeaderLock,
                  vanguardConsensusLock, delivered, aborted >>

\* Mutant: the loop is left as soon as either flag is cleared.
LeaveLoop_EitherFlag(headerLock, consensusLock) == ~headerLock \/ ~consensusLock

\* if !vanguardHeaderLock && !vanguardConsensusLock { break }
LeaveLoop(headerLock, consensusLock) == ~headerLock /\ ~consensusLock

\* What follows a select case that cleared its flag.
Gate_afterCase(headerLock, consensusLock) ==
  IF LeaveLoop(headerLock, consensusLock) THEN "register" ELSE "gate"

\* case <-vanguardHeadersChan:
Gate_recvHeaders ==
  /\ Alive /\ consPc = "gate" /\ vanguardHeadersChan > 0
  /\ vanguardHeadersChan' = vanguardHeadersChan - 1
  /\ delivered' = Append(delivered, "headers")
  /\ IF ~vanguardHeaderLock
       THEN consPc' = consPc /\ vanguardHeaderLock' = vanguardHeaderLock
       ELSE /\ vanguardHeaderLock' = FALSE
            /\ consPc' = Gate_afterCase(FALSE, vanguardConsensusLock)
  /\ UNCHANGED << debVars, newVars, services, fieldVars, startVars, closeVars, sigVars,
                  vanguardConsensusInfoChan, vanguardConsensusLock, aborted >>

\* case <-vanguardConsensusInfoChan:
Gate_recvConsensusInfo ==
  /\ Alive /\ consPc = "gate" /\ vanguardConsensusInfoChan > 0
  /\ vanguardConsensusInfoChan' = vanguardConsensusInfoChan - 1
  /\ delivered' = Append(delivered, "info")
  /\ IF ~vanguardConsensusLock
       THEN consPc' = consPc /\ vanguardConsensusLock' = vanguardConsensusLock
       ELSE /\ vanguardConsensusLock' = FALSE
            /\ consPc' = Gate_afterCase(vanguardHeaderLock, FALSE)
  /\ UNCHANGED << debVars, newVars, services, fieldVars, startVars, closeVars, sigVars,
                  vanguardHeadersChan, vanguardHeaderLock, aborted >>

\* svc := consensus.New(cliCtx.Context, o.db); o.services.RegisterService(svc);
\* a registration error is only logged.
Consensus_register ==
  /\ Alive /\ consPc = "register"
  /\ services' = RegisterService(services, "consensus")
  /\ consPc' = "done"
  /\ UNCHANGED << debVars, newVars, fieldVars, startVars, closeVars, sigVars, gateVars,
                  aborted >>

registerConsensusService ==
  \/ Consensus_fetchVanguard
  \/ Consensus_fetchPandora
  \/ Consensus_subscribe
  \/ Gate_recvHeaders
  \/ Gate_recvConsensusInfo
  \/ Consensus_register

\* ---------------------------------------------------------------- Start
\* o.lock.Lock(); o.services.StartAll() begins.
Start_lock ==
  /\ Alive /\ newPc = "ok" /\ startPc = "idle" /\ lock = "free"
  /\ lock' = "start"
  /\ startPc' = "startAll"
  /\ startOrder' = StartAllOrder(services) /\ startIdx' = 1
  /\ UNCHANGED << debVars, newVars, services, stopClosed, cancelled, started, closeVars,
                  sigVars, consPc, gateVars, aborted >>

\* StartAll invokes Start on the next service.
Start_startAll ==
  /\ Alive /\ startPc = "startAll" /\ startIdx <= Len(startOrder)
  /\ started' = Append(started, startOrder[startIdx])
  /\ startIdx' = startIdx + 1
  /\ UNCHANGED << debVars, newVars, services, fieldVars, startPc, startOrder, closeVars,
                  sigVars, consPc, gateVars, aborted >>

\* stop := o.stop; o.lock.Unlock()
Start_unlock ==
  /\ Alive /\ startPc = "startAll" /\ startIdx > Len(startOrder)
  /\ lock' = "free"
  /\ startPc' = "unlocked"
  /\ UNCHANGED << debVars, newVars, services, stopClosed, cancelled, startOrder, startIdx,
                  started, closeVars, sigVars, consPc, gateVars, aborted >>

\* go func() { ... }()
Start_goSignals ==
  /\ Alive /\ startPc = "unlocked"
  /\ startPc' = "waiting" /\ sigPc' = "spawned"
  /\ UNCHANGED << debVars, newVars, services, fieldVars, startOrder, startIdx, started,
                  closeVars, sigI, sigc, sigReceived, consPc, gateVars, aborted >>

\* <-stop
Start_return ==
  /\ Alive /\ startPc = "waiting" /\ stopClosed
  /\ startPc' = "returned"
  /\ UNCHANGED << debVars, newVars, services, fieldVars, startOrder, startIdx, started,
                  closeVars, sigVars, consPc, gateVars, aborted >>

Start ==
  \/ Start_lock
  \/ Start_startAll
  \/ Start_unlock
  \/ Start_goSignals
  \/ Start_return

\* ---------------------------------------------------------------- Close
\* A caller other than the signal goroutine invokes Close().
Close_call(c) ==
  /\ Alive /\ newPc = "ok" /\ c # SigCloser /\ closePc[c] = "idle"
  /\ closePc' = [closePc EXCEPT ![c] = "waitlock"]
  /\ UNCHANGED << debVars, newVars, services, fieldVars, startVars, stopOrder, stopIdx,
                  stopped, afterStart, sigVars, consPc, gateVars, aborted >>

\* Mutant: Close() does not wait for the lock.
Close_lock_NoMutex(c) ==
  /\ Alive /\ closePc[c] = "waitlock"
  /\ lock' = "close"
  /\ closePc' = [closePc EXCEPT ![c] = "stopAll"]
  /\ stopOrder' = [stopOrder EXCEPT ![c] = StopAllOrder(services)]
  /\ stopIdx' = [stopIdx EXCEPT ![c] = 1]
  /\ afterStart' = [afterStart EXCEPT ![c] = (startPc # "idle")]
  /\ UNCHANGED << debVars, newVars, services, stopClosed, cancelled, startVars, stopped,
                  sigVars, consPc, gateVars, aborted >>

\* b.lock.Lock(); b.services.StopAll() begins.
Close_lock(c) ==
  /\ Alive /\ closePc[c] = "waitlock" /\ lock = "free"
  /\ lock' = "close"
  /\ closePc' = [closePc EXCEPT ![c] = "stopAll"]
  /\ stopOrder' = [stopOrder EXCEPT ![c] = StopAllOrder(services)]
  /\ stopIdx' = [stopIdx EXCEPT ![c] = 1]
  /\ afterStart' = [afterStart EXCEPT ![c] = (startPc # "idle")]
  /\ UNCHANGED << debVars, newVars, services, stopClosed, cancelled, startVars, stopped,
                  sigVars, consPc, gateVars, aborted >>

\* StopAll invokes Stop on the next service.
Close_stopAll(c) ==
  /\ Alive /\ closePc[c] = "stopAll" /\ stopIdx[c] <= Len(stopOrder[c])
  /\ stopped' = [stopped EXCEPT ![c] = Append(@, stopOrder[c][stopIdx[c]])]
  /\ stopIdx' = [stopIdx EXCEPT ![c] = @ + 1]
  /\ UNCHANGED << debVars, newVars, services, fieldVars, startVars, closePc, stopOrder,
                  afterStart, sigVars, consPc, gateVars, aborted >>

\* b.cancel()
Close_cancel(c) ==
  /\ Alive /\ closePc[c] = "stopAll" /\ stopIdx[c] > Len(stopOrder[c])
  /\ cancelled' = TRUE
  /\ closePc' = [closePc EXCEPT ![c] = "closeStop"]
  /\ UNCHANGED << debVars, newVars, services, lock, stopClosed, startVars, stopOrder,
                  stopIdx, stopped, afterStart, sigVars, consPc, gateVars,
                  aborted >>

\* close(b.stop), then the deferred b.lock.Unlock(). Closing a closed channel
\* panics, and nothing recovers: the process ends.
Close_closeStop(c) ==
  /\ Alive /\ closePc[c] = "closeStop"
  /\ IF stopClosed
       THEN /\ aborted' = "doubleclose"
            /\ UNCHANGED << lock, stopClosed, closePc >>
       ELSE /\ stopClosed' = TRUE
            /\ lock' = "free"
            /\ closePc' = [closePc EXCEPT ![c] = "done"]
            /\ aborted' = aborted
  /\ UNCHANGED << debVars, newVars, services, cancelled, startVars, stopOrder, stopIdx,
                  stopped, afterStart, sigVars, consPc, gateVars >>

Close ==
  \E c \in Closers :
    \/ Close_call(c)
    \/ Close_lock(c)
    \/ Close_stopAll(c)
    \/ Close_cancel(c)
    \/ Close_closeStop(c)

\* ------------------------------------------- the signal goroutine of Start
\* sigc := make(chan os.Signal, 1); signal.Notify(sigc, SIGINT, SIGTERM)
Signals_notify ==
  /\ Alive /\ sigPc = "spawned"
  /\ sigPc' = "first"
  /\ UNCHANGED << debVars, newVars, services, fieldVars, startVars, closeVars, sigI, sigc,
                  sigReceived, consPc, gateVars, aborted >>

\* The operating system delivers SIGINT or SIGTERM; Notify relays it when
\* sigc has room (a signal arriving while sigc is full is dropped and
\* changes nothing).
Signal_arrive ==
  /\ Alive /\ sigPc \in {"first", "loop"} /\ sigc = 0
  /\ sigc' = 1
  /\ UNCHANGED << debVars, newVars, services, fieldVars, startVars, closeVars, sigPc, sigI,
                  sigReceived, consPc, gateVars, aborted >>

\* <-sigc; go o.Close(); i := 10
Signals_first ==
  /\ Alive /\ sigPc = "first" /\ sigc = 1
  /\ sigc' = 0 /\ sigReceived' = sigReceived + 1
  /\ closePc' = [closePc EXCEPT ![SigCloser] = "waitlock"]
  /\ sigI' = EscalationCount
  /\ sigPc' = "loop"
  /\ UNCHANGED << debVars, newVars, services, fieldVars, startVars, stopOrder, stopIdx,
                  stopped, afterStart, consPc, gateVars, aborted >>

\* Mutant: the loop condition is i > 1.
LoopContinues_OffByOne(i) == i > 1

\* The loop condition of `for i := 10; i > 0; i--`.
LoopContinues(i) == i > 0

\* One iteration: <-sigc, then i--; when the loop ends, panic(...).
Signals_loop ==
  /\ Alive /\ sigPc = "loop" /\ sigc = 1
  /\ sigc' = 0 /\ sigReceived' = sigReceived + 1
  /\ sigI' = sigI - 1
  /\ IF LoopContinues(sigI - 1)
       THEN sigPc' = sigPc /\ aborted' = aborted
       ELSE sigPc' = "panicked" /\ aborted' = "escalation"
  /\ UNCHANGED << debVars, newVars, services, fieldVars, startVars, closeVars, consPc,
                  gateVars >>

Signals ==
  \/ Signals_notify
  \/ Signals_first
  \/ Signals_loop

\* -------------------------------------------------------------- Debounce
\* Time is counted in ticks. A goroutine that can take a step takes it before
\* the clock advances: Tick is enabled only while Debounce is blocked.
Nil == 0

DebInit ==
  /\ dPc = "range" /\ eventsChan = << >> /\ chanClosed = FALSE
  /\ ctxDone = FALSE /\ event = Nil /\ timer = 0 /\ handled = << >>
  /\ sent = 0 /\ sinceLast = 0 /\ sincePrev = 0 /\ burstLen = 0

\* A producer sends the next event on eventsChan.
Env_send ==
  /\ ~chanClosed /\ sent < MaxEvents /\ eventsChan = << >>
  /\ eventsChan' = << sent + 1 >>
  /\ sent' = sent + 1
  /\ burstLen' = IF sent > 0 /\ sinceLast < Interval THEN burstLen + 1 ELSE 1
  /\ sinceLast' = 0 /\ sincePrev' = sinceLast
  /\ UNCHANGED << nodeVars, dPc, chanClosed, ctxDone, event, timer, handled >>

\* The producer closes eventsChan.
Env_close ==
  /\ ~chanClosed
  /\ chanClosed' = TRUE
  /\ UNCHANGED << nodeVars, dPc, eventsChan, ctxDone, event, timer, handled, sent,
                  sinceLast, sincePrev, burstLen >>

\* The context is cancelled.
Env_cancel ==
  /\ ~ctxDone
  /\ ctxDone' = TRUE
  /\ UNCHANGED << nodeVars, dPc, eventsChan, chanClosed, event, timer, handled, sent,
                  sinceLast, sincePrev, burstLen >>

\* A receive from eventsChan does not block: an event is buffered, or the
\* channel is closed (and then yields the zero value).
RecvReady == eventsChan # << >> \/ chanClosed
RecvValue == IF eventsChan # << >> THEN Head(eventsChan) ELSE Nil

Blocked ==
  \/ dPc = "done"
  \/ dPc = "range" /\ ~RecvReady
  \/ dPc = "select" /\ ~RecvReady /\ ~ctxDone /\ timer > 0

Tick ==
  /\ Blocked
  /\ (dPc = "select" \/ sinceLast <= Interval)
  /\ timer' = IF dPc = "select" THEN timer - 1 ELSE timer
  /\ sinceLast' = IF sinceLast <= Interval THEN sinceLast + 1 ELSE sinceLast
  /\ UNCHANGED << nodeVars, dPc, eventsChan, chanClosed, ctxDone, event, handled, sent,
                  sincePrev, burstLen >>

\* The last event that had arrived before the present instant, and the ticks
\* since it was sent: an event still in eventsChan was sent at this instant.
LastArrived == sent - Len(eventsChan)
SinceArrived == IF eventsChan = << >> THEN sinceLast ELSE sincePrev

\* Mutant: the running timer is kept when an event arrives.
NewTimer_Keep(running) == running

\* timer := time.NewTimer(interval), at the top of every inner iteration.
NewTimer(running) == Interval

\* for event := range eventsChan: the next event enters the inner loop, a
\* closed and drained channel ends the function.
Debounce_range ==
  /\ dPc = "range" /\ RecvReady
  /\ IF eventsChan # << >>
       THEN /\ event' = Head(eventsChan)
            /\ eventsChan' = Tail(eventsChan)
            /\ dPc' = "select"
            /\ timer' = Interval
       ELSE /\ dPc' = "done"
            /\ UNCHANGED << event, eventsChan, timer >>
  /\ UNCHANGED << nodeVars, chanClosed, ctxDone, handled, sent, sinceLast,
                  sincePrev, burstLen >>

\* case event = <-eventsChan: then timer.Stop() and the next iteration.
Debounce_recv ==
  /\ dPc = "select" /\ RecvReady
  /\ event' = RecvValue
  /\ eventsChan' = IF eventsChan # << >> THEN Tail(eventsChan) ELSE eventsChan
  /\ timer' = NewTimer(timer)
  /\ UNCHANGED << nodeVars, dPc, chanClosed, ctxDone, handled, sent, sinceLast,
                  sincePrev, burstLen >>

\* case <-timer.C: handler(event); break loop
Debounce_timer ==
  /\ dPc = "select" /\ timer = 0
  /\ handled' = Append(handled,
                  [arg |-> event, last |-> LastArrived, since |-> SinceArrived,
                   closed |-> chanClosed, done |-> ctxDone])
  /\ dPc' = "range"
  /\ UNCHANGED << nodeVars, eventsChan, chanClosed, ctxDone, event, timer, sent,
                  sinceLast, sincePrev, burstLen >>

\* case <-ctx.Done(): timer.Stop(); return
Debounce_ctxDone ==
  /\ dPc = "select" /\ ctxDone
  /\ dPc' = "done"
  /\ UNCHANGED << nodeVars, eventsChan, chanClosed, ctxDone, event, timer, handled, sent,
                  sinceLast, sincePrev, burstLen >>

Debounce ==
  \/ Debounce_range
  \/ Debounce_recv
  \/ Debounce_timer
  \/ Debounce_ctxDone

DebNext ==
  \/ Env_send
  \/ Env_close
  \/ Env_cancel
  \/ Tick
  \/ Debounce

\* ------------------------------------------------------ the node, whole
NodeNext ==
  \/ New
  \/ registerConsensusService
  \/ Feed_headers
  \/ Feed_consensusInfo
  \/ Start
  \/ Close
  \/ Signal_arrive
  \/ Signals

vars == << nodeVars, debVars >>

Init == NodeInit /\ DebInit

\* The node, with Debounce not running.
Next == NodeNext
Spec == Init /\ [][Next]_vars

\* Debounce, run on its own.
NextD == DebNext
SpecD == Init /\ [][NextD]_vars

\* Debounce's goroutine is scheduled whenever it can run, and time passes.
FairSpecD == SpecD /\ WF_vars(Debounce) /\ WF_vars(Tick)

\* The steps of one Close() call once it has been made.
CloseRun(c) ==
  \/ Close_lock(c)
  \/ Close_stopAll(c)
  \/ Close_cancel(c)
  \/ Close_closeStop(c)

\* The node with its goroutines scheduled: every Stop and Start of a service
\* returns, and a goroutine that can run does run. Signals arrive or not.
FairSpec ==
  Spec /\ (\A c \in Closers : WF_vars(CloseRun(c))) /\ WF_vars(Start)

\* ====================================================================
\* Properties
\* ====================================================================
Kinds == {"vanguard", "pandora", "rpc", "consensus"}

RECURSIVE StopCountUpTo(_, _)
StopCountUpTo(kind, c) ==
  Count(stopped[c], kind) + (IF c = 0 THEN 0 ELSE StopCountUpTo(kind, c - 1))

\* Stop invocations on a kind, over all Close() calls.
StopCount(kind) == StopCountUpTo(kind, MaxCloseCalls)

CloseCompleted == \E c \in Closers : closePc[c] = "done"

\* C1: over any number of Close() calls the stop channel is closed exactly
\* once: no execution closes the already-closed stop channel.
C1_StopClosedOnce == aborted # "doubleclose"

\* C2: over any number of Close() calls, Stop is invoked at most once on each
\* registered service.
C2_StopAtMostOnce == \A kind \in Kinds : StopCount(kind) <= 1

\* C3: while no Close() completes, the process is aborted exactly when the
\* 11th signal has been received; the first signal starts Close(), each of
\* the next ten decrements the counter (initially 10) by one, and with 1 to
\* 10 signals received the process has not aborted.
C3_AbortAtEleventhSignal ==
  ~CloseCompleted =>
    /\ (aborted # "no") <=> (sigReceived = 11)
    /\ sigReceived \in 1 .. 10 => aborted = "no" /\ sigPc = "loop"
    /\ sigReceived >= 1 => closePc[SigCloser] # "idle" /\ sigI = 11 - sigReceived
    /\ sigReceived = 0 => closePc[SigCloser] = "idle"

C3_Witness ==
  /\ ~CloseCompleted /\ sigReceived = 11 /\ aborted = "escalation"
  /\ closePc[SigCloser] = "stopAll"

GateLeft == consPc \in {"register", "done"}

\* C4: the wait loop is left exactly when each feed has delivered an event;
\* one event from each feed, in either order, ends it after exactly two
\* deliveries, and events of one feed alone never end it.
C4_GateNeedsBothFeeds ==
  /\ GateLeft <=> {"headers", "info"} \subseteq Range(delivered)
  /\ Len(delivered) >= 2 /\ delivered[1] # delivered[2] => Len(delivered) = 2
  /\ delivered \in {<< "headers", "info" >>, << "info", "headers" >>} => GateLeft
  /\ Range(delivered) = {"headers"} => consPc = "gate" /\ vanguardConsensusLock
  /\ Range(delivered) = {"info"} => consPc = "gate" /\ vanguardHeaderLock

C4_Witness ==
  /\ delivered = << "info", "headers" >> /\ consPc = "register"
  /\ vanguardHeadersChan > 0

\* C5: whenever the consensus service has been constructed or is in the
\* registry, each of the two feeds has delivered at least one event.
C5_ConsensusOnlyAfterBothFeeds ==
  (consPc = "done" \/ "consensus" \in Range(services)) =>
    Count(delivered, "headers") >= 1 /\ Count(delivered, "info") >= 1

C5_Witness == "consensus" \in Range(services) /\ Len(delivered) = 3

\* C6: for a Close() run after Start(), the services StopAll stopped are, in
\* order, the reverse of the services StartAll started.
C6_StopReversesStart ==
  \A c \in Closers :
    (afterStart[c] /\ closePc[c] \in {"closeStop", "done"}) =>
      stopped[c] = Reverse(started)

\* C7: when registerRPCService runs with no vanguard service registered it
\* fails with the not-found error: no RPC service is registered, New returns
\* that error and the consensus task is not launched.
C7_RPCNeedsVanguard ==
  /\ newErr = "ServiceNotFoundError" =>
       newPc = "failed" /\ "vanguard" \notin Range(services)
  /\ "vanguard" \notin Range(services) =>
       /\ newPc \notin {"spawn", "ok"}
       /\ "rpc" \notin Range(services)
       /\ consPc = "notlaunched"

C7_Witness ==
  /\ newErr = "ServiceNotFoundError" /\ newPc = "failed"
  /\ services = << "pandora" >>

Undisturbed == ~chanClosed /\ ~ctxDone

\* Handler invocations made for the burst that event e ended.
CallsFor(e) == Cardinality({ k \in 1 .. Len(handled) : handled[k].last = e })

\* C8: with the stream open and no cancellation, the handler is invoked for
\* a burst exactly once: never sooner than Interval after the last event of
\* the burst, with that event as its argument, never twice for one burst,
\* and once the quiet interval is over it has been invoked.
C8_DebounceOncePerBurst ==
  /\ \A k \in 1 .. Len(handled) :
       (~handled[k].closed /\ ~handled[k].done) =>
         handled[k].arg = handled[k].last /\ handled[k].since >= Interval
  /\ Undisturbed => \A e \in 1 .. sent : CallsFor(e) <= 1
  /\ (Undisturbed /\ sent > 0 /\ sinceLast > Interval) =>
       CallsFor(sent) = 1 /\ handled[Len(handled)].arg = sent

C8_Witness ==
  /\ Undisturbed /\ burstLen = 3 /\ sent = 3 /\ sinceLast > Interval
  /\ Len(handled) = 1 /\ handled[1].arg = 3 /\ handled[1].since = Interval

\* C9: once eventsChan is closed, Debounce returns, whether it was waiting
\* for the first event of a burst or was inside the quiet interval.
C9_ReturnsOnClose == chanClosed ~> (dPc = "done")

\* C10: once the context is cancelled, Debounce returns, whether it was
\* waiting for the first event of a burst or was inside the quiet interval.
C10_ReturnsOnCancel == ctxDone ~> (dPc = "done")

\* C11: the handler is never invoked after eventsChan was closed or after the
\* context was cancelled, and every argument it gets is an event that was
\* sent, never the zero value received from the closed channel.
C11_NoHandlerAfterStop ==
  \A k \in 1 .. Len(handled) :
    /\ ~handled[k].closed /\ ~handled[k].done
    /\ handled[k].arg # Nil /\ handled[k].arg \in 1 .. sent

\* C12: a Close() that runs before Start() returns instead of ending the
\* process, and once it has returned the context is cancelled and the stop
\* channel is closed, so that a Start() called afterwards finds the stop
\* channel closed when it waits on it.
C12_CloseBeforeStart ==
  \A c \in Closers :
    ~afterStart[c] =>
      /\ closePc[c] = "closeStop" => aborted # "doubleclose"
      /\ closePc[c] = "done" =>
           cancelled /\ stopClosed /\ (startPc = "waiting" => ENABLED Start_return)

\* C13: once the signal goroutine has received the first signal while Start()
\* is blocked on the stop channel, the Close() it starts eventually
\* completes, the stop channel is closed and Start() returns; and whenever
\* Start() has returned, a StopAll has finished and the context is cancelled.
C13_CleanShutdown ==
  /\ (sigReceived >= 1 /\ startPc = "waiting") ~>
       (closePc[SigCloser] = "done" /\ stopClosed /\ startPc = "returned")
  /\ [](startPc = "returned" =>
         cancelled /\ \E c \in Closers : closePc[c] \in {"closeStop", "done"})

\* C14: New runs storage, vanguard, pandora, RPC in this order, and a step
\* that fails (storage, construction of a service, duplicate registration)
\* makes New fail at that step: New is past a registration step only with
\* that step's service registered, and a failed New has not launched the
\* consensus task.
C14_NewShortCircuits ==
  /\ newPc \in {"pandora", "rpc", "spawn", "ok"} => "vanguard" \in Range(services)
  /\ newPc \in {"rpc", "spawn", "ok"} => "pandora" \in Range(services)
  /\ newPc \in {"spawn", "ok"} => "rpc" \in Range(services)
  /\ newPc = "failed" => newErr # "none" /\ consPc = "notlaunched"
  /\ newPc = "startDB" => services = << >>

PastFetches == consPc \in {"subscribe", "gate", "register", "done"}

\* C15: the consensus task goes past its two fetches only when both services
\* are in the registry; a task that abandoned has subscribed to no feed,
\* received nothing in the wait loop and registered no consensus service;
\* the step that abandons changes nothing but the task itself, and the node
\* can still be started.
C15_AbandonOnFetchFailure ==
  /\ [](PastFetches =>
          ~FetchFails(services, "vanguard") /\ ~FetchFails(services, "pandora"))
  /\ [](consPc = "abandoned" =>
          /\ FetchFails(services, "vanguard") \/ FetchFails(services, "pandora")
          /\ ~Subscribed
          /\ vanguardHeadersChan = 0 /\ vanguardConsensusInfoChan = 0
          /\ delivered = << >>
          /\ "consensus" \notin Range(services)
          /\ (Alive /\ startPc = "idle" /\ lock = "free" => ENABLED Start_lock))
  /\ [][consPc # "abandoned" /\ consPc' = "abandoned" =>
          UNCHANGED << newVars, services, fieldVars, startVars, closeVars,
                       sigVars, gateVars, aborted >>]_vars

C15_Witness ==
  /\ consPc = "abandoned" /\ services = << "vanguard", "rpc" >>
  /\ startPc = "waiting" /\ started = << "vanguard", "rpc" >> /\ Alive

HandlerInstalled == sigPc \in {"first", "loop", "panicked"}

\* C16: Start() installs the signal handler before it releases the lock:
\* whenever Start() has released the lock (it is about to start the
\* goroutine, is blocked on the stop channel or has returned), signal.Notify
\* has been called.
C16_HandlerInstalledUnderLock ==
  startPc \in {"unlocked", "waiting", "returned"} => HandlerInstalled

\* C17: every service in the registry was constructed with the node's own
\* cancellable context: once Close() has called cancel, the context of each
\* of them is cancelled.
C17_ServicesShareContext ==
  cancelled => \A kind \in Range(services) : CtxCancelled(CtxOf(kind), cancelled)

\* C18: a consensus service that is in the registry while Start() is blocked
\* on the stop channel, and in particular one registered after StartAll has
\* run, eventually has its Start invoked.
C18_LateServiceStarted ==
  ("consensus" \in Range(services) /\ startPc = "waiting")
    ~> ("consensus" \in Range(started))

\* Start() is between Lock and Unlock; Close() c is between Lock and Unlock.
InStartAll == startPc = "startAll"
InCloseBody(c) == closePc[c] \in {"stopAll", "closeStop"}

\* C19: StartAll and a StopAll are never in progress together, and no two
\* Close() bodies run at the same time, whatever the number of Close()
\* calls: whoever is inside is the one holder of the lock.
C19_StartStopExclusive ==
  /\ ~(InStartAll /\ \E c \in Closers : InCloseBody(c))
  /\ \A c, d \in Closers : (InCloseBody(c) /\ InCloseBody(d)) => c = d
  /\ InStartAll <=> lock = "start"
  /\ (\E c \in Closers : InCloseBody(c)) <=> lock = "close"

C19_Witness ==
  /\ InStartAll /\ startIdx = 2
  /\ closePc[1] = "waitlock" /\ closePc[2] = "waitlock"

\* C20: once a Close() has completed, no step modifies the registry (the
\* consensus task registers nothing after shutdown), and every service in
\* the registry has had Stop invoked on it.
C20_RegistryFrozenAfterClose ==
  /\ [][CloseCompleted => services' = services]_vars
  /\ [](CloseCompleted => \A kind \in Range(services) : StopCount(kind) >= 1)

====
